---- MODULE Spec2Model ----
(***************************************************************************)
(* VetCare: the dependency-injection container (infra/container.py), the   *)
(* relational data model (infra/database/models.py), the database module   *)
(* (vetcare/infra/database/__init__.py) and the pets routes                *)
(* (web/blueprints/pets.py).                                               *)
(***************************************************************************)
EXTENDS Integers, Sequences, FiniteSets, TLC

VARIABLES
    initialized,    \* DIContainer._initialized
    repositories,   \* DIContainer._repositories : key -> repository instance
    services,       \* DIContainer._services     : key -> service instance
    nextId,         \* identity of the next object a constructor call creates
    failedInits,    \* number of initialize() calls that ended in an exception
    last,           \* outcome of the last operation
    returned,       \* history: instances every successful lookup has returned
    clients,        \* rows of table clients: the set of their ids
    pets,           \* rows of table pets: id -> [client_id, is_active, name]
    appointments,   \* rows of table appointments: id -> [pet_id, status]
    engine,         \* database module: _engine (NoEngine: None)
    session_factory, \* database module: _session_factory (NoEngine: None)
    sessions,       \* ids of the sessions get_db_session() returned, still open
    nextSession,    \* identity of the next Session object
    tables,         \* whether the tables of Base.metadata exist
    requests,       \* request -> [state, session, failed]
    threads         \* thread -> where it is inside initialize()

containerVars == <<initialized, repositories, services, nextId, failedInits>>
storeVars == <<clients, pets, appointments>>
dbVars == <<engine, session_factory, sessions, nextSession, tables, requests>>
vars ==
    <<initialized, repositories, services, nextId, failedInits, last, returned,
      clients, pets, appointments,
      engine, session_factory, sessions, nextSession, tables, requests, threads>>

(***************************************************************************)
(* Bounds of the model.                                                    *)
(***************************************************************************)
MaxFailedInits == 1
MaxClients == 2
MaxPets == 2
MaxAppointments == 2
MaxEngines == 2
MaxSessions == 3
MaxRequests == 2
\* pets stored when the search endpoint is asked for more than it shows
MaxListed == 11
\* worker threads that may call initialize() on the global container
MaxThreads == 2

(***************************************************************************)
(* The keys of the two registries, in the order initialize() binds them.   *)
(***************************************************************************)
RepositoryKeys == <<"user", "client", "pet", "appointment">>
ServiceKeys == <<"auth", "client", "pet", "appointment">>

RepositoryClass(key) ==
    CASE key = "user" -> "SQLUserRepository"
      [] key = "client" -> "SQLClientRepository"
      [] key = "pet" -> "SQLPetRepository"
      [] key = "appointment" -> "SQLAppointmentRepository"

ServiceClass(key) ==
    CASE key = "auth" -> "AuthService"
      [] key = "client" -> "ClientService"
      [] key = "pet" -> "PetService"
      [] key = "appointment" -> "AppointmentService"

Range(s) == {s[i] : i \in 1..Len(s)}

\* names a caller may pass to get_repository / get_service
Names == Range(RepositoryKeys) \cup Range(ServiceKeys) \cup {"nonexistent"}

NoInstance == [id |-> 0, cls |-> "None"]

\* dict.__setitem__: binds key, replacing an earlier binding of the same key
DictSet(d, key, value) ==
    [k \in (DOMAIN d) \cup {key} |-> IF k = key THEN value ELSE d[k]]

EmptyDict == [k \in {} |-> NoInstance]

\* the container object as one value
Container ==
    [repositories |-> repositories, services |-> services,
     initialized |-> initialized, nextId |-> nextId]

NewContainer ==
    [repositories |-> EmptyDict, services |-> EmptyDict,
     initialized |-> FALSE, nextId |-> 1]

(***************************************************************************)
(* _setup_repositories: the i-th assignment constructs one repository.     *)
(***************************************************************************)
SetupRepositoryStep(c, i) ==
    [c EXCEPT !.repositories =
                  DictSet(@, RepositoryKeys[i],
                          [id |-> c.nextId, cls |-> RepositoryClass(RepositoryKeys[i])]),
              !.nextId = @ + 1]

(***************************************************************************)
(* _setup_services: the repositories each service constructor is given.    *)
(***************************************************************************)
\* the pet service given a client repository of its own instead of the
\* registered one
ServiceDependencies_OwnClientRepository(c, key) ==
    CASE key = "auth" ->
           [user_repository |-> c.repositories["user"]]
      [] key = "client" ->
           [client_repository |-> c.repositories["client"]]
      [] key = "pet" ->
           [pet_repository |-> c.repositories["pet"],
            client_repository |-> [id |-> c.nextId + Len(RepositoryKeys) + Len(ServiceKeys),
                                   cls |-> RepositoryClass("client")]]
      [] key = "appointment" ->
           [appointment_repository |-> c.repositories["appointment"],
            pet_repository |-> c.repositories["pet"],
            user_repository |-> c.repositories["user"]]

ServiceDependencies(c, key) ==
    CASE key = "auth" ->
           [user_repository |-> c.repositories["user"]]
      [] key = "client" ->
           [client_repository |-> c.repositories["client"]]
      [] key = "pet" ->
           [pet_repository |-> c.repositories["pet"],
            client_repository |-> c.repositories["client"]]
      [] key = "appointment" ->
           [appointment_repository |-> c.repositories["appointment"],
            pet_repository |-> c.repositories["pet"],
            user_repository |-> c.repositories["user"]]

SetupServiceStep(c, i) ==
    [c EXCEPT !.services =
                  DictSet(@, ServiceKeys[i],
                          [id |-> c.nextId, cls |-> ServiceClass(ServiceKeys[i]),
                           deps |-> ServiceDependencies(c, ServiceKeys[i])]),
              !.nextId = @ + 1]

NumSetupSteps == Len(RepositoryKeys) + Len(ServiceKeys)

\* the k-th constructor call of initialize(), repositories first
SetupStep(c, k) ==
    IF k <= Len(RepositoryKeys)
    THEN SetupRepositoryStep(c, k)
    ELSE SetupServiceStep(c, k - Len(RepositoryKeys))

RECURSIVE RunSetup(_, _)
\* the first k constructor calls of _setup_repositories(); _setup_services()
RunSetup(c, k) ==
    IF k = 0 THEN c ELSE SetupStep(RunSetup(c, k - 1), k)

(***************************************************************************)
(* initialize(): returns at once when already initialized; otherwise runs  *)
(* the constructors.  `completed` is the number of constructor calls that  *)
(* return before one raises (NumSetupSteps: none raises); the flag is set  *)
(* only after the last one.                                                *)
(***************************************************************************)
initialize_NoGuard(c, completed) ==
    IF completed = NumSetupSteps
    THEN [RunSetup(c, NumSetupSteps) EXCEPT !.initialized = TRUE]
    ELSE RunSetup(c, completed)

initialize(c, completed) ==
    IF c.initialized
    THEN c
    ELSE IF completed = NumSetupSteps
         THEN [RunSetup(c, NumSetupSteps) EXCEPT !.initialized = TRUE]
         ELSE RunSetup(c, completed)

(***************************************************************************)
(* get_repository(name) / get_service(name): the uninitialized check comes *)
(* first, then the membership check, then the dictionary read.  The list   *)
(* of available keys is kept as the set of the dictionary's keys.          *)
(***************************************************************************)
get_repository_SwappedChecks(c, name) ==
    IF name \notin DOMAIN c.repositories
    THEN [outcome |-> "KeyError", value |-> NoInstance,
          available |-> DOMAIN c.repositories]
    ELSE IF ~c.initialized
    THEN [outcome |-> "RuntimeError", value |-> NoInstance, available |-> {}]
    ELSE [outcome |-> "ok", value |-> c.repositories[name], available |-> {}]

get_repository_ServiceKeysReported(c, name) ==
    IF ~c.initialized
    THEN [outcome |-> "RuntimeError", value |-> NoInstance, available |-> {}]
    ELSE IF name \notin DOMAIN c.repositories
    THEN [outcome |-> "KeyError", value |-> NoInstance,
          available |-> DOMAIN c.services]
    ELSE [outcome |-> "ok", value |-> c.repositories[name], available |-> {}]

get_repository(c, name) ==
    IF ~c.initialized
    THEN [outcome |-> "RuntimeError", value |-> NoInstance, available |-> {}]
    ELSE IF name \notin DOMAIN c.repositories
    THEN [outcome |-> "KeyError", value |-> NoInstance,
          available |-> DOMAIN c.repositories]
    ELSE [outcome |-> "ok", value |-> c.repositories[name], available |-> {}]

get_service(c, name) ==
    IF ~c.initialized
    THEN [outcome |-> "RuntimeError", value |-> NoInstance, available |-> {}]
    ELSE IF name \notin DOMAIN c.services
    THEN [outcome |-> "KeyError", value |-> NoInstance,
          available |-> DOMAIN c.services]
    ELSE [outcome |-> "ok", value |-> c.services[name], available |-> {}]

(***************************************************************************)
(* The typed accessors get_<key>_repository() / get_<key>_service(): the   *)
(* name each passes on to the generic lookup.                              *)
(***************************************************************************)
TypedRepositoryTarget_PetReadsClient(key) ==
    IF key = "pet" THEN "client" ELSE key

TypedRepositoryTarget(key) == key

TypedServiceTarget(key) == key

get_typed_repository(c, key) == get_repository(c, TypedRepositoryTarget(key))

get_typed_service(c, key) == get_service(c, TypedServiceTarget(key))

(***************************************************************************)
(* health_check(): the flag and the two counts, and the key lists only     *)
(* when the container is initialized.                                      *)
(***************************************************************************)
health_check_CountsFromRepositories(c) ==
    IF c.initialized
    THEN [initialized |-> c.initialized,
          repositories_count |-> Cardinality(DOMAIN c.repositories),
          services_count |-> Cardinality(DOMAIN c.repositories),
          available_repositories |-> DOMAIN c.repositories,
          available_services |-> DOMAIN c.services]
    ELSE [initialized |-> c.initialized,
          repositories_count |-> Cardinality(DOMAIN c.repositories),
          services_count |-> Cardinality(DOMAIN c.repositories)]

health_check(c) ==
    IF c.initialized
    THEN [initialized |-> c.initialized,
          repositories_count |-> Cardinality(DOMAIN c.repositories),
          services_count |-> Cardinality(DOMAIN c.services),
          available_repositories |-> DOMAIN c.repositories,
          available_services |-> DOMAIN c.services]
    ELSE [initialized |-> c.initialized,
          repositories_count |-> Cardinality(DOMAIN c.repositories),
          services_count |-> Cardinality(DOMAIN c.services)]

(***************************************************************************)
(* The state after `container = DIContainer()`.                            *)
(***************************************************************************)
LookupKeys ==
    ({"repository"} \X Range(RepositoryKeys)) \cup ({"service"} \X Range(ServiceKeys))

\* _engine and _session_factory when they are None
NoEngine == [id |-> 0, poolclass |-> "None", echo |-> FALSE]

Requests == 1..MaxRequests

Threads == 1..MaxThreads

\* no thread is inside initialize()
InitThreads == threads = [t \in Threads |-> [pc |-> "idle", completed |-> 0]]

\* the database module as imported, no request under way
InitDatabase ==
    /\ engine = NoEngine
    /\ session_factory = NoEngine
    /\ sessions = {}
    /\ nextSession = 1
    /\ tables = FALSE
    /\ requests = [r \in Requests |-> [state |-> "idle", session |-> 0, failed |-> FALSE]]

\* the tables after create_tables(): no rows
InitStore ==
    /\ clients = {}
    /\ pets = [p \in {} |-> {}]
    /\ appointments = [a \in {} |-> {}]

Init ==
    /\ initialized = NewContainer.initialized
    /\ repositories = NewContainer.repositories
    /\ services = NewContainer.services
    /\ nextId = NewContainer.nextId
    /\ failedInits = 0
    /\ last = [op |-> "DIContainer"]
    /\ returned = [k \in LookupKeys |-> {}]
    /\ InitStore
    /\ InitDatabase
    /\ InitThreads

SetContainer(c) ==
    /\ initialized' = c.initialized
    /\ repositories' = c.repositories
    /\ services' = c.services
    /\ nextId' = c.nextId

\* a lookup's result, and the instance it handed out filed under the key asked for
RecordLookup(op, registry, name, r) ==
    /\ last' = [op |-> op, name |-> name, outcome |-> r.outcome,
                value |-> r.value, available |-> r.available]
    /\ returned' = IF r.outcome = "ok"
                   THEN [returned EXCEPT ![<<registry, name>>] = @ \cup {r.value.id}]
                   ELSE returned

(***************************************************************************)
(* Operations on the global container.                                     *)
(***************************************************************************)
Initialize ==
    \E completed \in 0..NumSetupSteps :
        /\ initialized => completed = NumSetupSteps
        /\ completed < NumSetupSteps => failedInits < MaxFailedInits
        /\ SetContainer(initialize(Container, completed))
        /\ failedInits' = IF completed < NumSetupSteps THEN failedInits + 1
                                                       ELSE failedInits
        /\ last' = [op |-> "initialize", was_initialized |-> initialized,
                    outcome |-> IF completed < NumSetupSteps THEN "raised" ELSE "ok"]
        /\ UNCHANGED <<threads, returned, storeVars, dbVars>>

GetRepository ==
    \E name \in Names :
        /\ RecordLookup("get_repository", "repository", name,
                        get_repository(Container, name))
        /\ UNCHANGED <<threads, containerVars, storeVars, dbVars>>

GetService ==
    \E name \in Names :
        /\ RecordLookup("get_service", "service", name, get_service(Container, name))
        /\ UNCHANGED <<threads, containerVars, storeVars, dbVars>>

GetTypedRepository ==
    \E key \in Range(RepositoryKeys) :
        /\ RecordLookup("get_typed_repository", "repository", key,
                        get_typed_repository(Container, key))
        /\ UNCHANGED <<threads, containerVars, storeVars, dbVars>>

GetTypedService ==
    \E key \in Range(ServiceKeys) :
        /\ RecordLookup("get_typed_service", "service", key,
                        get_typed_service(Container, key))
        /\ UNCHANGED <<threads, containerVars, storeVars, dbVars>>

HealthCheck ==
    /\ last' = [op |-> "health_check", health |-> health_check(Container)]
    /\ UNCHANGED <<threads, containerVars, returned, storeVars, dbVars>>

Next ==
    \/ Initialize
    \/ GetRepository
    \/ GetService
    \/ GetTypedRepository
    \/ GetTypedService
    \/ HealthCheck

Spec == Init /\ [][Next]_vars

(***************************************************************************)
(* Properties of the container.                                            *)
(***************************************************************************)
LookupOps ==
    {"get_repository", "get_service", "get_typed_repository", "get_typed_service"}

ContainerUnchanged ==
    /\ initialized' = initialized
    /\ repositories' = repositories
    /\ services' = services
    /\ nextId' = nextId

\* C1: once initialize() has succeeded, a further initialize() call constructs
\* nothing (the construction counter stays) and leaves both registries bound to
\* the same instances; each of the four keys of each registry then holds one
\* instance, no two keys sharing one.
C1_InitializeIdempotent ==
    [][(initialized /\ last'.op = "initialize")
          => /\ ContainerUnchanged
             /\ DOMAIN repositories' = Range(RepositoryKeys)
             /\ DOMAIN services' = Range(ServiceKeys)
             /\ Cardinality({repositories'[k].id : k \in DOMAIN repositories'}
                            \cup {services'[k].id : k \in DOMAIN services'})
                  = NumSetupSteps]_vars

C1_Witness ==
    /\ last.op = "initialize"
    /\ last.was_initialized
    /\ failedInits > 0
    /\ DOMAIN repositories = Range(RepositoryKeys)

\* C2: while initialize() has not completed successfully, every
\* get_repository(name) / get_service(name), registered name or not, ends in the
\* RuntimeError of the uninitialized check and leaves the container as it was.
C2_UninitializedLookupFails ==
    [][(~initialized /\ last'.op \in LookupOps)
          => /\ last'.outcome = "RuntimeError"
             /\ ContainerUnchanged
             /\ returned' = returned]_vars

C2_Witness ==
    /\ ~initialized
    /\ last.op = "get_repository"
    /\ last.name = "pet"
    /\ "pet" \in DOMAIN repositories
    /\ last.outcome = "RuntimeError"

\* C3: after initialization a lookup of an unregistered name ends in a KeyError
\* that reports exactly the registered keys of the registry asked (user, client,
\* pet, appointment for repositories; auth, client, pet, appointment for
\* services) and leaves the registries as they were.
C3_UnknownNameReportsKeys ==
    [][/\ (initialized /\ last'.op = "get_repository"
             /\ last'.name \notin {"user", "client", "pet", "appointment"})
          => /\ last'.outcome = "KeyError"
             /\ last'.available = {"user", "client", "pet", "appointment"}
             /\ ContainerUnchanged
       /\ (initialized /\ last'.op = "get_service"
             /\ last'.name \notin {"auth", "client", "pet", "appointment"})
          => /\ last'.outcome = "KeyError"
             /\ last'.available = {"auth", "client", "pet", "appointment"}
             /\ ContainerUnchanged]_vars

C3_Witness ==
    /\ initialized
    /\ last.op = "get_repository"
    /\ last.name = "nonexistent"
    /\ last.outcome = "KeyError"

\* C4: all successful lookups of one registered key, generic or typed, have
\* returned one and the same instance, whatever initialize(), health_check() and
\* other lookups ran between them.
C4_LookupsReturnSameInstance ==
    \A k \in LookupKeys : Cardinality(returned[k]) <= 1

C4_Witness ==
    /\ last.op = "get_typed_repository"
    /\ last.name = "pet"
    /\ last.outcome = "ok"
    /\ returned[<<"repository", "pet">>] = {last.value.id}
    /\ failedInits > 0
    /\ \A k \in LookupKeys : returned[k] # {}

\* C5: health_check() leaves the container as it was and reports the flag, the
\* number of keys each registry holds and, when it reports names (when the
\* container is initialized), exactly the keys of each registry.
C5_HealthCheckSnapshot ==
    [][(last'.op = "health_check")
          => /\ ContainerUnchanged
             /\ returned' = returned
             /\ last'.health.initialized = initialized
             /\ last'.health.repositories_count = Cardinality(DOMAIN repositories)
             /\ last'.health.services_count = Cardinality(DOMAIN services)
             /\ ("available_repositories" \in DOMAIN last'.health) = initialized
             /\ ("available_services" \in DOMAIN last'.health) = initialized
             /\ initialized
                  => /\ last'.health.available_repositories = DOMAIN repositories
                     /\ last'.health.available_services = DOMAIN services]_vars

C5_Witness ==
    /\ last.op = "health_check"
    /\ ~last.health.initialized
    /\ last.health.repositories_count = Len(RepositoryKeys)
    /\ last.health.services_count = 2

(***************************************************************************)
(* The data model (infra/database/models.py).                              *)
(***************************************************************************)
AppointmentStatusEnum ==
    {"scheduled", "confirmed", "in_progress", "completed", "cancelled", "no_show"}

PetSpeciesEnum == {"dog", "cat", "bird", "rabbit", "hamster", "other"}

\* Column(..., default=AppointmentStatusEnum.SCHEDULED)
AppointmentModel_status_default_Confirmed == "confirmed"

AppointmentModel_status_default == "scheduled"

\* PetModel.is_active = Column(Boolean, default=True, ...)
PetModel_is_active_default == TRUE

\* the cascade options of the two owning relationships
ClientModel_pets_cascade == {"all", "delete-orphan"}

PetModel_appointments_cascade_Default == {"save-update", "merge"}

PetModel_appointments_cascade == {"all", "delete-orphan"}

\* nullable= of the two foreign-key columns
PetModel_client_id_nullable == FALSE

AppointmentModel_pet_id_nullable == FALSE

\* "all" stands for every cascade but delete-orphan, "delete" among them
CascadesDelete(options) == "all" \in options \/ "delete" \in options

\* the three tables as one value
Store == [clients |-> clients, pets |-> pets, appointments |-> appointments]

Restrict(f, keep) == [k \in keep |-> f[k]]

PetsOfClient(st, c) == {p \in DOMAIN st.pets : st.pets[p].client_id = c}

AppointmentsOfPets(st, ps) ==
    {a \in DOMAIN st.appointments : st.appointments[a].pet_id \in ps}

\* a foreign key that is NULL
Null == 0

(***************************************************************************)
(* The unit of work deleting pet rows ps: the appointments relationship    *)
(* either cascades the delete to the child rows or sets their pet_id to    *)
(* NULL, which a NOT NULL column refuses (the transaction is rolled back). *)
(***************************************************************************)
OrmDeletePets(st, ps) ==
    LET children == AppointmentsOfPets(st, ps)
        without == Restrict(st.pets, (DOMAIN st.pets) \ ps)
    IN  IF CascadesDelete(PetModel_appointments_cascade)
        THEN [ok |-> TRUE,
              store |-> [st EXCEPT !.pets = without,
                                   !.appointments =
                                       Restrict(@, (DOMAIN @) \ children)]]
        ELSE IF children = {}
        THEN [ok |-> TRUE, store |-> [st EXCEPT !.pets = without]]
        ELSE IF AppointmentModel_pet_id_nullable
        THEN [ok |-> TRUE,
              store |-> [st EXCEPT !.pets = without,
                                   !.appointments =
                                       [a \in DOMAIN @ |->
                                           IF a \in children
                                           THEN [@[a] EXCEPT !.pet_id = Null]
                                           ELSE @[a]]]]
        ELSE [ok |-> FALSE, store |-> st]

\* the unit of work deleting client row c, through the pets relationship
OrmDeleteClient(st, c) ==
    LET owned == PetsOfClient(st, c)
    IN  IF CascadesDelete(ClientModel_pets_cascade)
        THEN LET r == OrmDeletePets(st, owned)
             IN  IF r.ok
                 THEN [ok |-> TRUE,
                       store |-> [r.store EXCEPT !.clients = @ \ {c}]]
                 ELSE [ok |-> FALSE, store |-> st]
        ELSE IF owned = {}
        THEN [ok |-> TRUE, store |-> [st EXCEPT !.clients = @ \ {c}]]
        ELSE IF PetModel_client_id_nullable
        THEN [ok |-> TRUE,
              store |-> [st EXCEPT !.clients = @ \ {c},
                                   !.pets = [p \in DOMAIN @ |->
                                                IF p \in owned
                                                THEN [@[p] EXCEPT !.client_id = Null]
                                                ELSE @[p]]]]
        ELSE [ok |-> FALSE, store |-> st]

(***************************************************************************)
(* Repositories and services.  Their classes are constructed by the         *)
(* container; what their methods do follows the design document: a fetch   *)
(* by id answers "absent" for a missing row, and a service validates and   *)
(* checks the referenced row through the repository it was given before it *)
(* writes.                                                                 *)
(***************************************************************************)
\* repository.get_by_id(id) is not None, in the table the repository's class maps
RepoHasId(repo, st, id) ==
    CASE repo.cls = "SQLClientRepository" -> id \in st.clients
      [] repo.cls = "SQLPetRepository" -> id \in DOMAIN st.pets
      [] repo.cls = "SQLAppointmentRepository" -> id \in DOMAIN st.appointments
      [] OTHER -> FALSE

FreePetIds == (1..MaxPets) \ DOMAIN pets
FreeClientIds == (1..MaxClients) \ clients
FreeAppointmentIds == (1..MaxAppointments) \ DOMAIN appointments

\* PetService.create_pet(pet_data); newId is the id the insert generates
PetService_create_pet_NoClientCheck(svc, st, data, newId) ==
    IF data.name = "" \/ data.species \notin PetSpeciesEnum
    THEN [exc |-> "ValueError", store |-> st, id |-> 0]
    ELSE [exc |-> "none", id |-> newId,
          store |-> [st EXCEPT !.pets =
                        DictSet(@, newId,
                                [client_id |-> data.client_id,
                                 is_active |-> PetModel_is_active_default,
                                 name |-> data.name])]]

PetService_create_pet(svc, st, data, newId) ==
    IF data.name = "" \/ data.species \notin PetSpeciesEnum
    THEN [exc |-> "ValueError", store |-> st, id |-> 0]
    ELSE IF ~RepoHasId(svc.deps.client_repository, st, data.client_id)
    THEN [exc |-> "ValueError", store |-> st, id |-> 0]
    ELSE [exc |-> "none", id |-> newId,
          store |-> [st EXCEPT !.pets =
                        DictSet(@, newId,
                                [client_id |-> data.client_id,
                                 is_active |-> PetModel_is_active_default,
                                 name |-> data.name])]]

\* AppointmentService.create_appointment: the pet must exist; status is the default
AppointmentService_create_appointment(svc, st, pet_id, newId) ==
    IF ~RepoHasId(svc.deps.pet_repository, st, pet_id)
    THEN [exc |-> "ValueError", store |-> st, id |-> 0]
    ELSE [exc |-> "none", id |-> newId,
          store |-> [st EXCEPT !.appointments =
                        DictSet(@, newId,
                                [pet_id |-> pet_id,
                                 status |-> AppointmentModel_status_default])]]

\* the status lifecycle of the design document
AllowedTransition(from, to) ==
    \/ from = "scheduled" /\ to = "confirmed"
    \/ from = "confirmed" /\ to = "in_progress"
    \/ from = "in_progress" /\ to = "completed"
    \/ from \in {"scheduled", "confirmed"} /\ to \in {"cancelled", "no_show"}

\* AppointmentService: a status change
AppointmentService_update_status(svc, st, a, to) ==
    IF ~RepoHasId(svc.deps.appointment_repository, st, a)
    THEN [exc |-> "ValueError", store |-> st]
    ELSE IF ~AllowedTransition(st.appointments[a].status, to)
    THEN [exc |-> "ValueError", store |-> st]
    ELSE [exc |-> "none",
          store |-> [st EXCEPT !.appointments[a].status = to]]

SetStore(st) ==
    /\ clients' = st.clients
    /\ pets' = st.pets
    /\ appointments' = st.appointments

(***************************************************************************)
(* Operations of the service layer on the tables, in a process whose       *)
(* container has been initialized at start-up.                             *)
(***************************************************************************)
InitServing ==
    LET c == initialize(NewContainer, NumSetupSteps)
    IN  /\ initialized = c.initialized
        /\ repositories = c.repositories
        /\ services = c.services
        /\ nextId = c.nextId
        /\ failedInits = 0
        /\ last = [op |-> "initialize", was_initialized |-> FALSE, outcome |-> "ok"]
        /\ returned = [k \in LookupKeys |-> {}]
        /\ InitStore
        /\ InitDatabase
        /\ InitThreads

CreateClient ==
    \E id \in FreeClientIds :
        /\ clients' = clients \cup {id}
        /\ last' = [op |-> "create_client", outcome |-> "ok"]
        /\ UNCHANGED <<threads, containerVars, returned, pets, appointments, dbVars>>

DeleteClient ==
    \E c \in clients :
        LET r == OrmDeleteClient(Store, c)
        IN  /\ SetStore(r.store)
            /\ last' = [op |-> "delete_client",
                        outcome |-> IF r.ok THEN "ok" ELSE "IntegrityError",
                        owned_pets |-> Cardinality(PetsOfClient(Store, c)),
                        owned_appointments |->
                            Cardinality(AppointmentsOfPets(Store, PetsOfClient(Store, c)))]
            /\ UNCHANGED <<threads, containerVars, returned, dbVars>>

DeletePet ==
    \E p \in DOMAIN pets :
        LET r == OrmDeletePets(Store, {p})
        IN  /\ SetStore(r.store)
            /\ last' = [op |-> "delete_pet",
                        outcome |-> IF r.ok THEN "ok" ELSE "IntegrityError"]
            /\ UNCHANGED <<threads, containerVars, returned, dbVars>>

CreatePet ==
    \E client_id \in 1..(MaxClients + 1), name \in {"", "Rex"},
       newId \in 0..MaxPets :
        LET svc == get_typed_service(Container, "pet")
            r == PetService_create_pet(
                     svc.value, Store,
                     [name |-> name, species |-> "dog", client_id |-> client_id],
                     newId)
        IN  /\ svc.outcome = "ok"
            /\ newId \in FreePetIds \/ (newId = 0 /\ r.exc # "none")
            /\ SetStore(r.store)
            /\ last' = [op |-> "PetService.create_pet", outcome |-> r.exc]
            /\ UNCHANGED <<threads, containerVars, returned, dbVars>>

CreateAppointment ==
    \E pet_id \in 1..(MaxPets + 1), newId \in 0..MaxAppointments :
        LET svc == get_typed_service(Container, "appointment")
            r == AppointmentService_create_appointment(svc.value, Store, pet_id, newId)
        IN  /\ svc.outcome = "ok"
            /\ newId \in FreeAppointmentIds \/ (newId = 0 /\ r.exc # "none")
            /\ SetStore(r.store)
            /\ last' = [op |-> "create_appointment", outcome |-> r.exc]
            /\ UNCHANGED <<threads, containerVars, returned, dbVars>>

UpdateAppointmentStatus ==
    \E a \in 1..MaxAppointments, to \in AppointmentStatusEnum :
        LET svc == get_typed_service(Container, "appointment")
            r == AppointmentService_update_status(svc.value, Store, a, to)
        IN  /\ svc.outcome = "ok"
            /\ SetStore(r.store)
            /\ last' = [op |-> "update_status", outcome |-> r.exc]
            /\ UNCHANGED <<threads, containerVars, returned, dbVars>>

NextStore ==
    \/ CreateClient
    \/ DeleteClient
    \/ CreatePet
    \/ DeletePet
    \/ CreateAppointment

SpecStore == InitServing /\ [][NextStore]_vars

(***************************************************************************)
(* The appointments of one registered pet: booked, moved through their     *)
(* statuses, and removed with the pet.                                     *)
(***************************************************************************)
InitLifecycle ==
    LET c == initialize(NewContainer, NumSetupSteps)
        empty == [clients |-> {1}, pets |-> [p \in {} |-> {}],
                  appointments |-> [a \in {} |-> {}]]
        r == PetService_create_pet(
                 c.services["pet"], empty,
                 [name |-> "Rex", species |-> "dog", client_id |-> 1], 1)
    IN  /\ initialized = c.initialized
        /\ repositories = c.repositories
        /\ services = c.services
        /\ nextId = c.nextId
        /\ failedInits = 0
        /\ last = [op |-> "PetService.create_pet", outcome |-> r.exc]
        /\ returned = [k \in LookupKeys |-> {}]
        /\ clients = r.store.clients
        /\ pets = r.store.pets
        /\ appointments = r.store.appointments
        /\ InitDatabase
        /\ InitThreads

NextLifecycle ==
    \/ CreateAppointment
    \/ UpdateAppointmentStatus
    \/ DeletePet

SpecLifecycle == InitLifecycle /\ [][NextLifecycle]_vars

(***************************************************************************)
(* Properties of the data model.                                           *)
(***************************************************************************)
\* C6: every step leaves no pet pointing at a missing client and no appointment
\* pointing at a missing pet, and deleting a client succeeds and removes exactly
\* that client, all the pets it owned and all the appointments of those pets.
C6_DeleteClientCascades ==
    [][/\ \A p \in DOMAIN pets' : pets'[p].client_id \in clients'
       /\ \A a \in DOMAIN appointments' : appointments'[a].pet_id \in DOMAIN pets'
       /\ (last'.op = "delete_client")
          => /\ last'.outcome = "ok"
             /\ \E c \in clients :
                  LET owned == {p \in DOMAIN pets : pets[p].client_id = c}
                  IN  /\ Cardinality(owned) = last'.owned_pets
                      /\ clients' = clients \ {c}
                      /\ DOMAIN pets' = (DOMAIN pets) \ owned
                      /\ DOMAIN appointments' =
                           {a \in DOMAIN appointments :
                               appointments[a].pet_id \notin owned}]_vars

C6_Witness ==
    /\ last.op = "delete_client"
    /\ last.outcome = "ok"
    /\ last.owned_pets = 2
    /\ last.owned_appointments = 2
    /\ clients # {}

ConfigNames == {"development", "production", "testing", "default"}

\* the environment variable a profile reads its URL from ("": none)
ConfigUrlVariable(config_name) ==
    CASE config_name \in {"development", "default"} -> "DEV_DATABASE_URL"
      [] config_name = "production" -> "DATABASE_URL"
      [] config_name = "testing" -> ""

\* app_config.DEBUG: DevelopmentConfig and ProductionConfig set it, Config and
\* TestingConfig do not
ConfigDebug(config_name) ==
    CASE config_name \in {"development", "default"} ->
           [defined |-> TRUE, value |-> TRUE]
      [] config_name = "production" -> [defined |-> TRUE, value |-> FALSE]
      [] config_name = "testing" -> [defined |-> FALSE, value |-> FALSE]

\* the scheme of SQLALCHEMY_DATABASE_URI; env_scheme is the scheme of the URL in
\* the profile's environment variable, "" when that is unset
ConfigUrlScheme(config_name, env_scheme) ==
    IF ConfigUrlVariable(config_name) # "" /\ env_scheme # ""
    THEN env_scheme
    ELSE "sqlite"

\* the module's globals as one value
Database == [engine |-> engine, session_factory |-> session_factory]

\* initialize_database(config_name); newId is the identity of the engine created
initialize_database(db, config_name, env_scheme, newId) ==
    IF config_name \notin ConfigNames
    THEN [exc |-> "KeyError", db |-> db]
    ELSE IF ~ConfigDebug(config_name).defined
    THEN [exc |-> "AttributeError", db |-> db]
    ELSE LET created ==
                 [id |-> newId,
                  poolclass |-> IF ConfigUrlScheme(config_name, env_scheme) = "sqlite"
                                THEN "StaticPool" ELSE "QueuePool",
                  echo |-> ConfigDebug(config_name).value]
         IN  [exc |-> "none",
              db |-> [engine |-> created, session_factory |-> created]]

\* get_db_session() without its check of _session_factory
get_db_session_NoGuard(db, newId) == [exc |-> "none", session |-> newId]

\* get_db_session(); newId is the identity of the Session the factory creates
get_db_session(db, newId) ==
    IF db.session_factory = NoEngine
    THEN [exc |-> "RuntimeError", session |-> 0]
    ELSE [exc |-> "none", session |-> newId]

\* create_tables() / drop_tables(): the guard on _engine
create_tables(db) ==
    IF db.engine = NoEngine THEN [exc |-> "RuntimeError"] ELSE [exc |-> "none"]

drop_tables(db) ==
    IF db.engine = NoEngine THEN [exc |-> "RuntimeError"] ELSE [exc |-> "none"]

\* session.close() when the request that acquired the session completes,
\* whether it succeeded or failed
ReleaseOnCompletion_OnlyOnSuccess(open, session, succeeded) ==
    IF succeeded THEN open \ {session} ELSE open

ReleaseOnCompletion(open, session, succeeded) == open \ {session}

InitializeDatabase ==
    \E config_name \in ConfigNames \cup {"staging"},
       env_scheme \in {"", "sqlite", "postgresql"} :
        LET r == initialize_database(Database, config_name, env_scheme, engine.id + 1)
        IN  /\ r.exc = "none" => engine.id < MaxEngines
            /\ engine' = r.db.engine
            /\ session_factory' = r.db.session_factory
            /\ last' = [op |-> "initialize_database", outcome |-> r.exc]
            /\ UNCHANGED <<threads, containerVars, returned, storeVars,
                           sessions, nextSession, tables, requests>>

GetDbSession ==
    LET r == get_db_session(Database, nextSession)
    IN  /\ r.exc = "none" => nextSession <= MaxSessions
        /\ sessions' = IF r.exc = "none" THEN sessions \cup {r.session} ELSE sessions
        /\ nextSession' = IF r.exc = "none" THEN nextSession + 1 ELSE nextSession
        /\ last' = [op |-> "get_db_session", outcome |-> r.exc, session |-> r.session]
        /\ UNCHANGED <<threads, containerVars, returned, storeVars,
                       engine, session_factory, tables, requests>>

CreateTables ==
    LET r == create_tables(Database)
    IN  /\ tables' = IF r.exc = "none" THEN TRUE ELSE tables
        /\ last' = [op |-> "create_tables", outcome |-> r.exc]
        /\ UNCHANGED <<threads, containerVars, returned, storeVars,
                       engine, session_factory, sessions, nextSession, requests>>

DropTables ==
    LET r == drop_tables(Database)
    IN  /\ tables' = IF r.exc = "none" THEN FALSE ELSE tables
        /\ SetStore(IF r.exc = "none"
                    THEN [clients |-> {}, pets |-> [p \in {} |-> {}],
                          appointments |-> [a \in {} |-> {}]]
                    ELSE Store)
        /\ last' = [op |-> "drop_tables", outcome |-> r.exc]
        /\ UNCHANGED <<threads, containerVars, returned,
                       engine, session_factory, sessions, nextSession, requests>>

\* a request starts and acquires its session
BeginRequest ==
    \E q \in Requests :
        LET r == get_db_session(Database, nextSession)
        IN  /\ requests[q].state # "active"
            /\ r.exc = "none" => nextSession <= MaxSessions
            /\ sessions' = IF r.exc = "none" THEN sessions \cup {r.session} ELSE sessions
            /\ nextSession' = IF r.exc = "none" THEN nextSession + 1 ELSE nextSession
            /\ requests' = [requests EXCEPT ![q] =
                               IF r.exc = "none"
                               THEN [state |-> "active", session |-> r.session,
                                     failed |-> FALSE]
                               ELSE [state |-> "done", session |-> 0, failed |-> TRUE]]
            /\ last' = [op |-> "begin_request", outcome |-> r.exc, session |-> r.session]
            /\ UNCHANGED <<threads, containerVars, returned, storeVars,
                           engine, session_factory, tables>>

\* a request completes, with a response or with an exception
CompleteRequest ==
    \E q \in Requests, succeeded \in BOOLEAN :
        /\ requests[q].state = "active"
        /\ sessions' = ReleaseOnCompletion(sessions, requests[q].session, succeeded)
        /\ requests' = [requests EXCEPT ![q].state = "done",
                                        ![q].failed = ~succeeded]
        /\ last' = [op |-> "complete_request",
                    outcome |-> IF succeeded THEN "none" ELSE "Exception",
                    session |-> requests[q].session]
        /\ UNCHANGED <<threads, containerVars, returned, storeVars,
                       engine, session_factory, nextSession, tables>>

NextDatabase ==
    \/ InitializeDatabase
    \/ GetDbSession
    \/ CreateTables
    \/ DropTables
    \/ BeginRequest
    \/ CompleteRequest

SpecDatabase == Init /\ [][NextDatabase]_vars

\* C9: no completed request, successful or failed, has left the session it
\* acquired through get_db_session() open.
C9_SessionReleasedOnCompletion ==
    \A q \in Requests :
        requests[q].state = "done" => requests[q].session \notin sessions

C9_Witness ==
    \E q \in Requests :
        /\ requests[q].state = "done"
        /\ requests[q].failed
        /\ requests[q].session # 0
        /\ \E o \in Requests : requests[o].state = "active"
        /\ last.op = "complete_request"

(***************************************************************************)
(* The pets routes (web/blueprints/pets.py).                               *)
(*                                                                         *)
(* A handler is an operator from the container, the tables and the request *)
(* to [response, store, calls]: the response the handler returns (or the   *)
(* exception that leaves it), the tables afterwards, and the service       *)
(* methods it called, in order.  `fault` is the position, among the        *)
(* service-method calls of the request, of one that raises an unexpected   *)
(* exception such as a database error (0: none does).                      *)
(***************************************************************************)
\* a form or query-string field: request.form.get(key) / request.args.get(key)
Field(text) == [present |-> TRUE, text |-> text]
Missing == [present |-> FALSE, text |-> ""]

\* int(field): None raises TypeError, a text that is no number ValueError
DecimalTexts == {"1", "2", "3", "4"}
DecimalValue(text) ==
    CASE text = "1" -> 1 [] text = "2" -> 2 [] text = "3" -> 3 [] text = "4" -> 4
PyInt(field) ==
    IF ~field.present THEN [exc |-> "TypeError", value |-> 0]
    ELSE IF field.text \notin DecimalTexts THEN [exc |-> "ValueError", value |-> 0]
    ELSE [exc |-> "none", value |-> DecimalValue(field.text)]

\* the keys of the dict pet_data that create_pet builds from the form
PetDataKeys ==
    {"name", "species", "breed", "birth_date", "gender", "color", "weight",
     "microchip_number", "client_id"}

\* f(k1=.., k2=.., **d) raises TypeError when d repeats a keyword given by name
KeywordsCollide(named, dictKeys) == named \cap dictKeys # {}

Flash(category, message) == [category |-> category, message |-> message]

Redirect(endpoint, flashes) ==
    [kind |-> "redirect", target |-> endpoint, flash |-> flashes, exc |-> "none"]
Render(template, flashes) ==
    [kind |-> "render", target |-> template, flash |-> flashes, exc |-> "none"]
Propagates(exception, flashes) ==
    [kind |-> "exception", target |-> "", flash |-> flashes, exc |-> exception]

\* the service-method call about to be made is the one that fails
Faulty(calls, fault) == fault = Len(calls) + 1

\* ClientService.get_client_by_id / PetService.get_pet_by_id / get_pet_summary:
\* whether the row was found (None otherwise)
ClientService_get_client_by_id(svc, st, id) ==
    RepoHasId(svc.deps.client_repository, st, id)
PetService_get_pet_by_id(svc, st, id) ==
    RepoHasId(svc.deps.pet_repository, st, id)

(***************************************************************************)
(* create_pet, GET: the form, with the client named in the query string    *)
(* preselected when it can be fetched; every failure of that is passed     *)
(* over.                                                                   *)
(***************************************************************************)
create_pet_get(c, st, client_id, fault) ==
    LET parsed == PyInt(client_id)
        svc == get_typed_service(c, "client")
        fetched == client_id.present /\ client_id.text # "" /\ parsed.exc = "none"
                    /\ svc.outcome = "ok"
        calls == IF fetched THEN <<"client.get_client_by_id">> ELSE <<>>
    IN  [response |-> Render("pets/create.html", <<>>),
         selected_client |->
             IF fetched /\ ~Faulty(<<>>, fault)
                /\ ClientService_get_client_by_id(svc.value, st, parsed.value)
             THEN parsed.value ELSE 0,
         store |-> st, calls |-> calls]

(***************************************************************************)
(* create_pet, POST.                                                       *)
(***************************************************************************)
\* except Exception: the generic message, then the form again with **pet_data
create_pet_on_exception(pet_data_bound) ==
    LET flashes == <<Flash("error", "Error registrando mascota.")>>
    IN  IF ~pet_data_bound THEN Propagates("UnboundLocalError", flashes)
        ELSE IF KeywordsCollide({"species", "genders"}, PetDataKeys)
        THEN Propagates("TypeError", flashes)
        ELSE Render("pets/create.html", flashes)

\* except ValueError: the exception's message, then the form again with pet_data
\* less species and gender
create_pet_on_value_error(pet_data_bound) ==
    LET flashes == <<Flash("error", "str(e)")>>
    IN  IF ~pet_data_bound THEN Propagates("UnboundLocalError", flashes)
        ELSE IF KeywordsCollide({"species", "genders", "selected_species",
                                 "selected_gender"},
                                PetDataKeys \ {"species", "gender"})
        THEN Propagates("TypeError", flashes)
        ELSE Render("pets/create.html", flashes)

create_pet_post(c, st, form, fault, newId) ==
    LET parsed == PyInt(form.client_id)
        svc == get_typed_service(c, "pet")
    IN  IF parsed.exc = "ValueError"
        THEN [response |-> create_pet_on_value_error(FALSE),
              store |-> st, calls |-> <<>>]
        ELSE IF parsed.exc # "none"
        THEN [response |-> create_pet_on_exception(FALSE),
              store |-> st, calls |-> <<>>]
        ELSE IF svc.outcome # "ok"
        THEN [response |-> create_pet_on_exception(TRUE),
              store |-> st, calls |-> <<>>]
        ELSE IF Faulty(<<>>, fault)
        THEN [response |-> create_pet_on_exception(TRUE),
              store |-> st, calls |-> <<"pet.create_pet">>]
        ELSE LET r == PetService_create_pet(
                          svc.value, st,
                          [name |-> form.name, species |-> form.species,
                           client_id |-> parsed.value],
                          newId)
             IN  IF r.exc = "ValueError"
                 THEN [response |-> create_pet_on_value_error(TRUE),
                       store |-> r.store, calls |-> <<"pet.create_pet">>]
                 ELSE [response |->
                           Redirect("pets.view_pet",
                                    <<Flash("success",
                                            "Mascota {name} registrada exitosamente.")>>),
                       store |-> r.store, calls |-> <<"pet.create_pet">>]

(***************************************************************************)
(* The other service methods the routes call.                              *)
(***************************************************************************)
\* PetService.update_pet: validates, then writes the supplied fields
PetService_update_pet(svc, st, id, data) ==
    IF data.name = "" \/ (data.species.present /\ data.species.text \notin PetSpeciesEnum)
    THEN [exc |-> "ValueError", store |-> st]
    ELSE [exc |-> "none", store |-> [st EXCEPT !.pets[id].name = data.name]]

\* PetService.activate_pet / deactivate_pet: the soft delete and its undoing
PetService_set_active(svc, st, id, flag) ==
    [success |-> TRUE, store |-> [st EXCEPT !.pets[id].is_active = flag]]

RECURSIVE Ascending(_)
\* the ids of a set as a list in ascending order
Ascending(ids) ==
    IF ids = {} THEN <<>>
    ELSE LET least == CHOOSE i \in ids : \A j \in ids : i <= j
         IN  <<least>> \o Ascending(ids \ {least})

\* PetService.get_all_pets(active_only)
PetService_get_all_pets(svc, st, active_only) ==
    Ascending({p \in DOMAIN st.pets : ~active_only \/ st.pets[p].is_active})

\* what a search may return: the stored pets or some of them, in any order
SearchResults(st) ==
    {found \in UNION {[1..n -> DOMAIN st.pets] : n \in 0..Cardinality(DOMAIN st.pets)} :
        \A i, j \in DOMAIN found : i # j => found[i] # found[j]}

\* str.strip() on a text given as its list of characters
RECURSIVE LStrip(_)
LStrip(text) ==
    IF text # <<>> /\ Head(text) = " " THEN LStrip(Tail(text)) ELSE text
RECURSIVE RStrip(_)
RStrip(text) ==
    IF text # <<>> /\ text[Len(text)] = " "
    THEN RStrip(SubSeq(text, 1, Len(text) - 1)) ELSE text
Strip(text) == RStrip(LStrip(text))

\* the query strings tried
Queries == {<<>>, <<" ">>, <<" ", "r", " ">>, <<" ", "r", "e">>}

\* pets[:10]
SearchLimit == 10
Take_Whole(list, n) == list

Take(list, n) == SubSeq(list, 1, IF Len(list) < n THEN Len(list) ELSE n)

\* the owner of each listed pet, fetched in its own try block: a failed fetch
\* and a missing client both give no owner (0); the fetch of the i-th pet is
\* service call number first + i - 1 of the request
LoadOwners(svc, st, listed, first, fault) ==
    [i \in 1..Len(listed) |->
        [pet |-> listed[i],
         owner |-> IF fault # first + i - 1
                      /\ ClientService_get_client_by_id(
                             svc, st, st.pets[listed[i]].client_id)
                   THEN st.pets[listed[i]].client_id ELSE 0]]

OwnerCalls(listed) == [i \in 1..Len(listed) |-> "client.get_client_by_id"]

(***************************************************************************)
(* list_pets                                                               *)
(***************************************************************************)
list_pets(c, st, search, show_inactive, found, fault) ==
    LET failed == Render("pets/list.html",
                         <<Flash("error", "Error cargando lista de mascotas.")>>)
        pet_service == get_typed_service(c, "pet")
        client_service == get_typed_service(c, "client")
        searching == Strip(search) # <<>>
        first == IF searching THEN "pet.search_pets" ELSE "pet.get_all_pets"
        listed == IF searching THEN found
                  ELSE PetService_get_all_pets(pet_service.value, st, ~show_inactive)
    IN  IF pet_service.outcome # "ok" \/ client_service.outcome # "ok"
        THEN [response |-> failed, data |-> <<>>, store |-> st, calls |-> <<>>]
        ELSE IF Faulty(<<>>, fault)
        THEN [response |-> failed, data |-> <<>>, store |-> st, calls |-> <<first>>]
        ELSE [response |->
                  Render("pets/list.html",
                         IF searching
                         THEN <<Flash("info", "Encontradas {n} mascotas para {q}")>>
                         ELSE <<>>),
              data |-> LoadOwners(client_service.value, st, listed, 2, fault),
              store |-> st,
              calls |-> <<first>> \o OwnerCalls(listed)]

(***************************************************************************)
(* view_pet                                                                *)
(***************************************************************************)
view_pet(c, st, pet_id, fault) ==
    LET failed == Redirect("pets.list_pets",
                           <<Flash("error", "Error cargando información de la mascota.")>>)
        pet_service == get_typed_service(c, "pet")
        appointment_service == get_typed_service(c, "appointment")
    IN  IF pet_service.outcome # "ok" \/ appointment_service.outcome # "ok"
        THEN [response |-> failed, store |-> st, calls |-> <<>>]
        ELSE IF Faulty(<<>>, fault)
        THEN [response |-> failed, store |-> st, calls |-> <<"pet.get_pet_summary">>]
        ELSE IF ~PetService_get_pet_by_id(pet_service.value, st, pet_id)
        THEN [response |-> Redirect("pets.list_pets",
                                    <<Flash("error", "Mascota no encontrada.")>>),
              store |-> st, calls |-> <<"pet.get_pet_summary">>]
        ELSE IF Faulty(<<"pet.get_pet_summary">>, fault)
        THEN [response |-> failed, store |-> st,
              calls |-> <<"pet.get_pet_summary", "appointment.get_appointments_by_pet">>]
        ELSE [response |-> Render("pets/view.html", <<>>), store |-> st,
              calls |-> <<"pet.get_pet_summary", "appointment.get_appointments_by_pet">>]

(***************************************************************************)
(* edit_pet                                                                *)
(***************************************************************************)
edit_pet(c, st, pet_id, method, form, fault) ==
    LET pet_service == get_typed_service(c, "pet")
        load_failed == Redirect("pets.list_pets",
                                <<Flash("error", "Error cargando mascota.")>>)
    IN  IF pet_service.outcome # "ok"
        THEN [response |-> load_failed, store |-> st, calls |-> <<>>]
        ELSE IF Faulty(<<>>, fault)
        THEN [response |-> load_failed, store |-> st, calls |-> <<"pet.get_pet_by_id">>]
        ELSE IF ~PetService_get_pet_by_id(pet_service.value, st, pet_id)
        THEN [response |-> Redirect("pets.list_pets",
                                    <<Flash("error", "Mascota no encontrada.")>>),
              store |-> st, calls |-> <<"pet.get_pet_by_id">>]
        ELSE IF method = "GET"
        THEN [response |-> Render("pets/edit.html", <<>>), store |-> st,
              calls |-> <<"pet.get_pet_by_id">>]
        ELSE IF Faulty(<<"pet.get_pet_by_id">>, fault)
        THEN [response |-> Render("pets/edit.html",
                                  <<Flash("error", "Error actualizando mascota.")>>),
              store |-> st, calls |-> <<"pet.get_pet_by_id", "pet.update_pet">>]
        ELSE LET r == PetService_update_pet(pet_service.value, st, pet_id, form)
             IN  [response |->
                      IF r.exc = "ValueError"
                      THEN Render("pets/edit.html", <<Flash("error", "str(e)")>>)
                      ELSE Redirect("pets.view_pet",
                                    <<Flash("success",
                                            "Mascota {name} actualizada exitosamente.")>>),
                  store |-> r.store,
                  calls |-> <<"pet.get_pet_by_id", "pet.update_pet">>]

(***************************************************************************)
(* deactivate_pet                                                          *)
(***************************************************************************)
\* request.form.get('activate') == 'true'
Activating_Never(activate) == FALSE

Activating(activate) == activate.present /\ activate.text = "true"

\* deactivate_pet as it would be without the return under `if not pet`
deactivate_pet_NoNotFoundReturn(c, st, pet_id, activate, fault) ==
    LET pet_service == get_typed_service(c, "pet")
        failed == Redirect("pets.list_pets",
                           <<Flash("error", "Error cambiando estado de mascota.")>>)
        method == IF activate.present /\ activate.text = "true"
                  THEN "pet.activate_pet" ELSE "pet.deactivate_pet"
    IN  IF pet_service.outcome # "ok"
        THEN [response |-> failed, store |-> st, calls |-> <<>>]
        ELSE IF Faulty(<<>>, fault)
        THEN [response |-> failed, store |-> st, calls |-> <<"pet.get_pet_by_id">>]
        ELSE [response |-> Redirect("pets.edit_pet",
                                    <<Flash("error", "Error desactivando mascota.")>>),
              store |-> st, calls |-> <<"pet.get_pet_by_id", method>>]

deactivate_pet(c, st, pet_id, activate, fault) ==
    LET pet_service == get_typed_service(c, "pet")
        failed == Redirect("pets.list_pets",
                           <<Flash("error", "Error cambiando estado de mascota.")>>)
        activating == Activating(activate)
        method == IF activating THEN "pet.activate_pet" ELSE "pet.deactivate_pet"
    IN  IF pet_service.outcome # "ok"
        THEN [response |-> failed, store |-> st, calls |-> <<>>]
        ELSE IF Faulty(<<>>, fault)
        THEN [response |-> failed, store |-> st, calls |-> <<"pet.get_pet_by_id">>]
        ELSE IF ~PetService_get_pet_by_id(pet_service.value, st, pet_id)
        THEN [response |-> Redirect("pets.list_pets",
                                    <<Flash("error", "Mascota no encontrada.")>>),
              store |-> st, calls |-> <<"pet.get_pet_by_id">>]
        ELSE IF Faulty(<<"pet.get_pet_by_id">>, fault)
        THEN [response |-> failed, store |-> st,
              calls |-> <<"pet.get_pet_by_id", method>>]
        ELSE LET r == PetService_set_active(pet_service.value, st, pet_id, activating)
             IN  [response |->
                      Redirect("pets.edit_pet",
                               <<IF r.success
                                 THEN Flash("success",
                                            IF activating
                                            THEN "Mascota {name} activada exitosamente."
                                            ELSE "Mascota {name} desactivada exitosamente.")
                                 ELSE Flash("error",
                                            IF activating
                                            THEN "Error activando mascota."
                                            ELSE "Error desactivando mascota.")>>),
                  store |-> r.store,
                  calls |-> <<"pet.get_pet_by_id", method>>]

(***************************************************************************)
(* pets_by_client                                                          *)
(***************************************************************************)
pets_by_client(c, st, client_id, fault) ==
    LET pet_service == get_typed_service(c, "pet")
        client_service == get_typed_service(c, "client")
        failed == Redirect("clients.list_clients",
                           <<Flash("error", "Error cargando mascotas del cliente.")>>)
    IN  IF pet_service.outcome # "ok" \/ client_service.outcome # "ok"
        THEN [response |-> failed, store |-> st, calls |-> <<>>]
        ELSE IF Faulty(<<>>, fault)
        THEN [response |-> failed, store |-> st,
              calls |-> <<"client.get_client_by_id">>]
        ELSE IF ~ClientService_get_client_by_id(client_service.value, st, client_id)
        THEN [response |-> Redirect("clients.list_clients",
                                    <<Flash("error", "Cliente no encontrado.")>>),
              store |-> st, calls |-> <<"client.get_client_by_id">>]
        ELSE IF Faulty(<<"client.get_client_by_id">>, fault)
        THEN [response |-> failed, store |-> st,
              calls |-> <<"client.get_client_by_id", "pet.get_pets_by_client">>]
        ELSE [response |-> Render("pets/by_client.html", <<>>), store |-> st,
              calls |-> <<"client.get_client_by_id", "pet.get_pets_by_client">>]

(***************************************************************************)
(* search_pets                                                             *)
(***************************************************************************)
\* jsonify(results); the list itself is the handler's data
Json == [kind |-> "json", target |-> "", flash |-> <<>>, exc |-> "none"]

search_pets(c, st, q, found, fault) ==
    LET pet_service == get_typed_service(c, "pet")
        client_service == get_typed_service(c, "client")
        shown == Take(found, SearchLimit)
    IN  IF Len(Strip(q)) < 2
        THEN [response |-> Json, data |-> <<>>, store |-> st, calls |-> <<>>]
        ELSE IF pet_service.outcome # "ok"
        THEN [response |-> Json, data |-> <<>>, store |-> st, calls |-> <<>>]
        ELSE IF Faulty(<<>>, fault)
        THEN [response |-> Json, data |-> <<>>, store |-> st,
              calls |-> <<"pet.search_pets">>]
        ELSE [response |-> Json,
              data |-> LoadOwners(client_service.value, st, shown, 2, fault),
              store |-> st,
              calls |-> <<"pet.search_pets">> \o OwnerCalls(shown)]

(***************************************************************************)
(* Requests to the pets routes, in a process whose container start-up has  *)
(* or has not initialized, on tables that clients are added to.            *)
(***************************************************************************)
PetsRoutes ==
    {"list_pets", "create_pet", "view_pet", "edit_pet", "deactivate_pet",
     "pets_by_client", "search_pets"}

\* values tried for an id field of a form or query string
IdFields == {Missing, Field(""), Field("abc"), Field("1"), Field("2"), Field("3")}

RouteFrame == UNCHANGED <<threads, containerVars, returned, dbVars>>

ListPets ==
    \E search \in Queries, show_inactive \in BOOLEAN,
       fault \in 0..(MaxPets + 1) :
      \E found \in IF Strip(search) = <<>> THEN {<<>>} ELSE SearchResults(Store) :
        \E r \in {list_pets(Container, Store, search, show_inactive, found, fault)} :
            /\ SetStore(r.store)
            /\ last' = [op |-> "list_pets", method |-> "GET", fault |-> fault,
                        response |-> r.response, calls |-> r.calls, data |-> r.data]
            /\ RouteFrame

CreatePetForm ==
    \E client_id \in IdFields, fault \in 0..1 :
        \E r \in {create_pet_get(Container, Store, client_id, fault)} :
            /\ SetStore(r.store)
            /\ last' = [op |-> "create_pet", method |-> "GET", fault |-> fault,
                        response |-> r.response, calls |-> r.calls,
                        client_id |-> client_id,
                        selected_client |-> r.selected_client]
            /\ RouteFrame

CreatePetSubmit ==
    \E name \in {"", "Rex"}, species \in {"dog", "dragon"},
       client_id \in IdFields \ {Field("")},
       fault \in 0..1, newId \in 0..MaxPets :
        \E r \in {create_pet_post(
                     Container, Store,
                     [name |-> name, species |-> species, client_id |-> client_id],
                     fault, newId)} :
            /\ newId \in FreePetIds \/ (newId = 0 /\ r.store = Store)
            /\ SetStore(r.store)
            /\ last' = [op |-> "create_pet", method |-> "POST", fault |-> fault,
                        response |-> r.response, calls |-> r.calls,
                        name |-> name, species |-> species,
                        client_id |-> client_id]
            /\ RouteFrame

ViewPet ==
    \E pet_id \in 1..(MaxPets + 1), fault \in 0..2 :
        \E r \in {view_pet(Container, Store, pet_id, fault)} :
            /\ SetStore(r.store)
            /\ last' = [op |-> "view_pet", method |-> "GET", fault |-> fault,
                        response |-> r.response, calls |-> r.calls, pet_id |-> pet_id]
            /\ RouteFrame

EditPet ==
    \E pet_id \in 1..(MaxPets + 1), method \in {"GET", "POST"},
       name \in {"", "Max"}, species \in {Missing, Field("dragon")},
       fault \in 0..2 :
        \E r \in {edit_pet(Container, Store, pet_id, method,
                          [name |-> name, species |-> species], fault)} :
            /\ SetStore(r.store)
            /\ last' = [op |-> "edit_pet", method |-> method, fault |-> fault,
                        response |-> r.response, calls |-> r.calls, pet_id |-> pet_id]
            /\ RouteFrame

DeactivatePet ==
    \E pet_id \in 1..(MaxPets + 1),
       activate \in {Missing, Field("true"), Field("false")}, fault \in 0..2 :
        \E r \in {deactivate_pet(Container, Store, pet_id, activate, fault)} :
            /\ SetStore(r.store)
            /\ last' = [op |-> "deactivate_pet", method |-> "POST", fault |-> fault,
                        response |-> r.response, calls |-> r.calls, pet_id |-> pet_id,
                        activate |-> activate]
            /\ RouteFrame

PetsByClient ==
    \E client_id \in 1..(MaxClients + 1), fault \in 0..2 :
        \E r \in {pets_by_client(Container, Store, client_id, fault)} :
            /\ SetStore(r.store)
            /\ last' = [op |-> "pets_by_client", method |-> "GET", fault |-> fault,
                        response |-> r.response, calls |-> r.calls,
                        client_id |-> client_id]
            /\ RouteFrame

SearchPets ==
    \E q \in Queries, fault \in 0..(MaxPets + 1) :
      \E found \in IF Len(Strip(q)) < 2 THEN {<<>>} ELSE SearchResults(Store) :
        \E r \in {search_pets(Container, Store, q, found, fault)} :
            /\ SetStore(r.store)
            /\ last' = [op |-> "search_pets", method |-> "GET", fault |-> fault,
                        response |-> r.response, calls |-> r.calls, data |-> r.data]
            /\ RouteFrame

NextRoutes ==
    \/ CreateClient
    \/ ListPets
    \/ CreatePetForm
    \/ CreatePetSubmit
    \/ ViewPet
    \/ EditPet
    \/ DeactivatePet
    \/ PetsByClient
    \/ SearchPets

\* the container as start-up left it: initialize() never called, or called once
InitRoutes == Init \/ InitServing

SpecRoutes == InitRoutes /\ [][NextRoutes]_vars

\* the create_pet route alone, with the clients it may name
NextCreatePet ==
    \/ CreateClient
    \/ CreatePetForm
    \/ CreatePetSubmit

SpecCreatePet == InitRoutes /\ [][NextCreatePet]_vars

(***************************************************************************)
(* Claims about the pets routes.                                           *)
(***************************************************************************)
\* a POST to /pets/create whose client_id field is a number that names no
\* stored client
UnknownClientSubmitted(request, stored) ==
    /\ request.op = "create_pet"
    /\ request.method = "POST"
    /\ PyInt(request.client_id).exc = "none"
    /\ PyInt(request.client_id).value \notin stored

\* C7: a create_pet POST whose client_id references no existing client writes
\* no row (the stored pets are unchanged) and does not redirect to a new pet;
\* when PetService.create_pet ran to its end, the route answers with the form
\* again and the error flashed.
C7_UnknownClientRejected ==
    [][UnknownClientSubmitted(last', clients)
         => /\ pets' = pets
            /\ last'.response.kind # "redirect"
            /\ (last'.calls = <<"pet.create_pet">> /\ last'.fault = 0)
                 => last'.response
                      = Render("pets/create.html", <<Flash("error", "str(e)")>>)
      ]_vars

C7_Witness ==
    /\ UnknownClientSubmitted(last, clients)
    /\ clients # {}
    /\ last.name # ""
    /\ last.species \in PetSpeciesEnum
    /\ last.calls = <<"pet.create_pet">>
    /\ last.fault = 0
    /\ last.response.kind = "render"
    /\ last.response.flash # <<>>

\* C10: whatever is raised while a pets route handles a request, no exception
\* leaves the handler: each request of list_pets, create_pet, view_pet,
\* edit_pet, deactivate_pet, pets_by_client and search_pets ends in a response.
C10_NoExceptionLeavesHandler ==
    last.op \in PetsRoutes => last.response.exc = "none"

\* C10, the conversion: a request during which something was raised and caught
\* at the route boundary ends in a redirect carrying an error message.
C10_CaughtMeansRedirect ==
    (last.op \in PetsRoutes /\ last.response.exc = "none"
        /\ \E i \in DOMAIN last.response.flash :
               last.response.flash[i].category = "error")
    => last.response.kind = "redirect"

\* the request just handled names a pet (view_pet, edit_pet, deactivate_pet) or
\* a client (pets_by_client) that has no row
EntityNotFound(request, st) ==
    \/ /\ request.op \in {"view_pet", "edit_pet", "deactivate_pet"}
       /\ request.pet_id \notin DOMAIN st.pets
    \/ /\ request.op = "pets_by_client"
       /\ request.client_id \notin st.clients

\* the one service call that looks a route's entity up
LookupCall(op) ==
    CASE op = "view_pet" -> "pet.get_pet_summary"
      [] op \in {"edit_pet", "deactivate_pet"} -> "pet.get_pet_by_id"
      [] op = "pets_by_client" -> "client.get_client_by_id"

\* C11: a request to view_pet, edit_pet, deactivate_pet or pets_by_client whose
\* id has no matching row is answered with a redirect carrying a flash message,
\* makes no service call after the lookup, and writes nothing.
C11_NotFoundRedirects ==
    [][EntityNotFound(last', Store)
         => /\ last'.response.kind = "redirect"
            /\ last'.response.flash # <<>>
            /\ last'.calls \in {<<>>, <<LookupCall(last'.op)>>}
            /\ Store' = Store
      ]_vars

C11_Witness ==
    /\ last.op = "deactivate_pet"
    /\ EntityNotFound(last, Store)
    /\ DOMAIN pets # {}
    /\ last.fault = 0
    /\ last.calls = <<"pet.get_pet_by_id">>
    /\ last.response = Redirect("pets.list_pets",
                                <<Flash("error", "Mascota no encontrada.")>>)

(***************************************************************************)
(* The search endpoint on tables holding more pets than it shows.          *)
(***************************************************************************)
\* a list back to front
Reverse(list) == [i \in 1..Len(list) |-> list[Len(list) + 1 - i]]

\* n pets, every second one owned by a client that is never registered
ListedPets(n) ==
    [p \in 1..n |->
        [client_id |-> IF p % 2 = 1 THEN 1 ELSE MaxClients + 1,
         is_active |-> PetModel_is_active_default,
         name |-> "Rex"]]

\* what PetService.search_pets returns here: the first pets by id or the last
\* ones, none, one, as many as are shown, or more
RankedResults(st) ==
    LET asc == Ascending(DOMAIN st.pets)
    IN  {Take(ranked, k) : ranked \in {asc, Reverse(asc)},
                           k \in {0, 1, SearchLimit, SearchLimit + 1}}

InitSearch ==
    LET c == initialize(NewContainer, NumSetupSteps)
    IN  /\ initialized = c.initialized
        /\ repositories = c.repositories
        /\ services = c.services
        /\ nextId = c.nextId
        /\ failedInits = 0
        /\ last = [op |-> "initialize", was_initialized |-> FALSE, outcome |-> "ok"]
        /\ returned = [k \in LookupKeys |-> {}]
        /\ clients = {}
        /\ \E n \in 0..MaxListed : pets = ListedPets(n)
        /\ appointments = [a \in {} |-> {}]
        /\ InitDatabase
        /\ InitThreads

SearchPetsRanked ==
    \E q \in Queries, fault \in {0, 1, 2, SearchLimit + 1} :
      \E found \in IF Len(Strip(q)) < 2 THEN {<<>>} ELSE RankedResults(Store) :
        \E r \in {search_pets(Container, Store, q, found, fault)} :
            /\ SetStore(r.store)
            /\ last' = [op |-> "search_pets", method |-> "GET", fault |-> fault,
                        response |-> r.response, calls |-> r.calls, data |-> r.data,
                        q |-> q, found |-> found]
            /\ RouteFrame

NextSearch ==
    \/ CreateClient
    \/ SearchPetsRanked

SpecSearch == InitSearch /\ [][NextSearch]_vars

\* the owner a result carries: the pet's client when the lookup found it, else
\* the unknown-owner placeholder (0)
OwnerOrPlaceholder(result, st) ==
    \/ result.owner = 0
    \/ /\ result.owner = st.pets[result.pet].client_id
       /\ result.owner \in st.clients

\* C12: the search endpoint answers with JSON holding at most 10 results, the
\* i-th being the i-th pet the service returned, each with its owner or the
\* unknown-owner placeholder (always the placeholder when the owner has no row
\* or the lookup failed); a query of fewer than 2 characters after trimming
\* gives the empty list and no service call.
C12_SearchAtMostTen ==
    (last.op = "search_pets" /\ "found" \in DOMAIN last) =>
        /\ last.response = Json
        /\ Len(last.data) <= 10
        /\ Len(last.data) <= Len(last.found)
        /\ \A i \in DOMAIN last.data :
              /\ last.data[i].pet = last.found[i]
              /\ OwnerOrPlaceholder(last.data[i], Store)
              /\ (last.fault = i + 1
                    \/ pets[last.found[i]].client_id \notin clients)
                   => last.data[i].owner = 0
        /\ last.fault = 0 /\ Len(Strip(last.q)) >= 2
             => Len(last.data) = IF Len(last.found) < 10 THEN Len(last.found) ELSE 10
        /\ Len(Strip(last.q)) < 2 => last.data = <<>> /\ last.calls = <<>>

C12_Witness ==
    /\ last.op = "search_pets"
    /\ "found" \in DOMAIN last
    /\ Len(last.found) > 10
    /\ Len(last.data) = 10
    /\ last.found[1] > last.found[2]
    /\ \E i \in DOMAIN last.data : last.data[i].owner = 0
    /\ \E i \in DOMAIN last.data : last.data[i].owner # 0
    /\ last.fault = 2
    /\ last.data[1].owner = 0
    /\ pets[last.found[1]].client_id \in clients

\* C12, the short query
C12_ShortQueryWitness ==
    /\ last.op = "search_pets"
    /\ "found" \in DOMAIN last
    /\ last.q = <<" ", "r", " ">>
    /\ DOMAIN pets # {}
    /\ last.calls = <<>>

\* every column of a pet row but the active flag
PetColumnsKept(before, after) ==
    /\ after.client_id = before.client_id
    /\ after.name = before.name

\* C13: the pets routes never remove a pet row (the stored pet ids never
\* shrink); deactivate_pet on an existing pet calls exactly one of
\* activate_pet (form field activate is 'true') and deactivate_pet (otherwise)
\* after the lookup, and changes nothing but the active flag of that pet.
C13_SoftDeleteOnly ==
    [][/\ DOMAIN pets \subseteq DOMAIN pets'
       /\ (last'.op = "deactivate_pet" /\ last'.pet_id \in DOMAIN pets)
            => /\ DOMAIN pets' = DOMAIN pets
               /\ clients' = clients
               /\ appointments' = appointments
               /\ \A p \in DOMAIN pets :
                     IF p = last'.pet_id
                     THEN PetColumnsKept(pets[p], pets'[p])
                     ELSE pets'[p] = pets[p]
               /\ (initialized /\ last'.fault # 1)
                    => /\ last'.calls =
                            <<"pet.get_pet_by_id",
                              IF last'.activate = Field("true")
                              THEN "pet.activate_pet" ELSE "pet.deactivate_pet">>
                       /\ last'.fault = 0
                            => pets'[last'.pet_id].is_active
                                 = (last'.activate = Field("true"))
      ]_vars

\* a stored, active pet has just been deactivated and is still stored
C13_Witness ==
    /\ last.op = "deactivate_pet"
    /\ last.fault = 0
    /\ last.activate = Field("false")
    /\ last.calls = <<"pet.get_pet_by_id", "pet.deactivate_pet">>
    /\ last.pet_id \in DOMAIN pets
    /\ ~pets[last.pet_id].is_active
    /\ \E p \in DOMAIN pets : pets[p].is_active

\* a deactivated pet has been activated again
C13_ReactivatedWitness ==
    /\ last.op = "deactivate_pet"
    /\ last.fault = 0
    /\ last.activate = Field("true")
    /\ last.calls = <<"pet.get_pet_by_id", "pet.activate_pet">>
    /\ last.pet_id \in DOMAIN pets
    /\ pets[last.pet_id].is_active

(***************************************************************************)
(* Claims about how initialize() wires the registries.                     *)
(***************************************************************************)
\* the registry key of the repository a constructor parameter receives
InjectedKey(parameter) ==
    CASE parameter = "user_repository" -> "user"
      [] parameter = "client_repository" -> "client"
      [] parameter = "pet_repository" -> "pet"
      [] parameter = "appointment_repository" -> "appointment"

\* C14: no service exists before all four repositories do, and after a
\* successful initialize() every repository was constructed before every
\* service and each service holds the very instances of the repository
\* registry: pet and client services the one 'client' repository, pet and
\* appointment services the one 'pet' repository, auth and appointment
\* services the one 'user' repository.
C14_RepositoriesFirstAndShared ==
    /\ DOMAIN services # {} => DOMAIN repositories = Range(RepositoryKeys)
    /\ initialized =>
        /\ \A r \in DOMAIN repositories, k \in DOMAIN services :
              repositories[r].id < services[k].id
        /\ \A k \in DOMAIN services :
              \A parameter \in DOMAIN services[k].deps :
                 services[k].deps[parameter] = repositories[InjectedKey(parameter)]
        /\ services["pet"].deps.client_repository
             = services["client"].deps.client_repository
        /\ services["pet"].deps.pet_repository
             = services["appointment"].deps.pet_repository
        /\ services["auth"].deps.user_repository
             = services["appointment"].deps.user_repository
        /\ DOMAIN services["pet"].deps = {"pet_repository", "client_repository"}
        /\ DOMAIN services["appointment"].deps
             = {"appointment_repository", "pet_repository", "user_repository"}

\* initialize() has succeeded after an attempt that failed
C14_Witness ==
    /\ initialized
    /\ last.op = "initialize"
    /\ last.outcome = "ok"
    /\ ~last.was_initialized
    /\ failedInits > 0
    /\ services["pet"].deps.client_repository = repositories["client"]

(***************************************************************************)
(* initialize() called by several threads on the global container.  The    *)
(* method takes no lock: a thread reads _initialized, then makes its eight *)
(* constructor calls one after the other, then sets the flag; other        *)
(* threads run between any two of these steps.                             *)
(***************************************************************************)
ThreadFrame == UNCHANGED <<failedInits, storeVars, dbVars>>

\* `if self._initialized: return`
ThreadEntersInitialize ==
    \E t \in Threads :
        /\ threads[t].pc = "idle"
        /\ threads' = [threads EXCEPT ![t].pc =
                           IF initialized THEN "returned" ELSE "setup"]
        /\ last' = [op |-> "initialize.guard", thread |-> t, passed |-> ~initialized]
        /\ UNCHANGED <<initialized, repositories, services, nextId, returned>>
        /\ ThreadFrame

\* the next assignment of _setup_repositories() / _setup_services()
ThreadSetupStep ==
    \E t \in Threads :
        /\ threads[t].pc = "setup"
        /\ threads[t].completed < NumSetupSteps
        /\ SetContainer(SetupStep(Container, threads[t].completed + 1))
        /\ threads' = [threads EXCEPT ![t].completed = @ + 1]
        /\ last' = [op |-> "initialize.setup", thread |-> t,
                    step |-> threads[t].completed + 1]
        /\ UNCHANGED returned
        /\ ThreadFrame

\* `self._initialized = True`
ThreadSetsInitialized ==
    \E t \in Threads :
        /\ threads[t].pc = "setup"
        /\ threads[t].completed = NumSetupSteps
        /\ initialized' = TRUE
        /\ threads' = [threads EXCEPT ![t].pc = "returned"]
        /\ last' = [op |-> "initialize.return", thread |-> t]
        /\ UNCHANGED <<repositories, services, nextId, returned>>
        /\ ThreadFrame

\* a request handler running meanwhile asks for the pet service, or the pet
\* repository
ThreadGetsPetService ==
    /\ RecordLookup("get_service", "service", "pet", get_service(Container, "pet"))
    /\ UNCHANGED <<threads, containerVars, storeVars, dbVars>>

ThreadGetsPetRepository ==
    /\ RecordLookup("get_repository", "repository", "pet",
                    get_repository(Container, "pet"))
    /\ UNCHANGED <<threads, containerVars, storeVars, dbVars>>

NextThreads ==
    \/ ThreadEntersInitialize
    \/ ThreadSetupStep
    \/ ThreadSetsInitialized
    \/ ThreadGetsPetService
    \/ ThreadGetsPetRepository

SpecThreads == Init /\ [][NextThreads]_vars

\* C15: with several threads calling initialize() concurrently, the eight
\* keys are constructed once each (no more constructor calls than keys) and
\* the lookups of a key never return two different instances.
C15_BuiltOnceUnderThreads ==
    /\ nextId - 1 <= NumSetupSteps
    /\ \A k \in LookupKeys : Cardinality(returned[k]) <= 1

\* C15, second half alone: an instance a lookup returned is still the one
\* registered under its key.
C15_ReturnedInstanceKept ==
    \A k \in LookupKeys : Cardinality(returned[k]) <= 1

\* C16: in every reachable state, also after a constructor failed part-way
\* through initialize(): the flag is set only with both registries holding
\* exactly their four keys, and while it is not set both registries are empty
\* and health_check() reports counts of 0.
C16_FlagMatchesRegistries ==
    /\ initialized => /\ DOMAIN repositories = Range(RepositoryKeys)
                      /\ DOMAIN services = Range(ServiceKeys)
    /\ ~initialized => /\ DOMAIN repositories = {}
                       /\ DOMAIN services = {}
    /\ (last.op = "health_check" /\ ~last.health.initialized)
         => /\ last.health.repositories_count = 0
            /\ last.health.services_count = 0

\* C16, the half that the flag being set implies full registries
C16_InitializedMeansComplete ==
    initialized => /\ DOMAIN repositories = Range(RepositoryKeys)
                   /\ DOMAIN services = Range(ServiceKeys)

(***************************************************************************)
(* Claims about the guard of the database module.                          *)
(***************************************************************************)
GuardedOps == {"get_db_session", "create_tables", "drop_tables"}

\* C17: while initialize_database() has not completed, get_db_session(),
\* create_tables() and drop_tables() each end in the RuntimeError and leave
\* engine and session factory (and sessions and tables) as they were; once it
\* has completed the module stays initialized, none of the three raises that
\* error again, and every session get_db_session() returns is one that no
\* earlier call returned.
C17_DatabaseGuard ==
    [][/\ (engine = NoEngine) = (session_factory = NoEngine)
       /\ engine # NoEngine => engine' # NoEngine /\ session_factory' # NoEngine
       /\ last'.op \in GuardedOps =>
            IF engine = NoEngine
            THEN /\ last'.outcome = "RuntimeError"
                 /\ engine' = engine
                 /\ session_factory' = session_factory
                 /\ sessions' = sessions
                 /\ tables' = tables
            ELSE /\ last'.outcome # "RuntimeError"
                 /\ last'.op = "get_db_session"
                      => /\ last'.session \notin 1..(nextSession - 1)
                         /\ last'.session \notin sessions
                         /\ last'.session \in sessions'
      ]_vars

\* get_db_session() has been refused before initialize_database() completed,
\* an attempt with a configuration that fails included
C17_Witness ==
    /\ last.op = "get_db_session"
    /\ last.outcome = "RuntimeError"
    /\ engine = NoEngine
    /\ session_factory = NoEngine
    /\ sessions = {}

\* a second session has been handed out after initialization
C17_NewSessionWitness ==
    /\ last.op = "get_db_session"
    /\ last.outcome = "none"
    /\ last.session > 1
    /\ Cardinality(sessions) > 1
    /\ engine # NoEngine

====
